---- MODULE Spec2Model ----
(***************************************************************************)
(* A model of s3_optimizer.py: the S3LifecycleOptimizer class and main().  *)
(*                                                                         *)
(* Representation.                                                         *)
(*  - A Python str is a sequence of one-character strings.                 *)
(*  - An optional value (None or x) is <<>> or <<x>>.                      *)
(*  - A size is a whole number of blocks; one GB (1024 ** 3 bytes) is      *)
(*    BlocksPerGB blocks, so size_bytes / (1024 ** 3) is the rational      *)
(*    size / GB and "size_gb < 1" is "size < GB".                          *)
(*  - Money is an exact rational kept as a numerator over the fixed        *)
(*    denominator GB * MoneyDen: a cost of n stands for n / (GB * MoneyDen)*)
(*    dollars, a rate of r for r / MoneyDen dollars per GB.  The rounding  *)
(*    error of binary floating point is not modelled.                      *)
(*  - round(x, 2) yields hundredths, as an integer.                        *)
(***************************************************************************)
EXTENDS Integers, Sequences, FiniteSets, TLC

VARIABLES
    pc,                          \* position of main()
    args,                        \* the parsed command line
    config,                      \* self.config, once loaded
    buckets,                     \* audit_buckets: the listing
    idx,                         \* audit_buckets: buckets processed so far
    loc,                         \* audit_buckets: the loop body's locals
    audit_results,
    total_size,
    total_cost,
    total_savings,
    buckets_without_lifecycle,
    calls,                       \* every request sent to the provider, in order
    console,                     \* the messages main() and the export print
    report,                      \* the CSV file written, if any
    answers,                     \* how the provider answered the last requests
    unit                         \* a single method call: its inputs and result

vars == <<pc, args, config, buckets, idx, loc, audit_results, total_size,
          total_cost, total_savings, buckets_without_lifecycle, calls,
          console, report, answers, unit>>

-----------------------------------------------------------------------------
(* Bounds of the model. *)

BlocksPerGB == 4
MaxBuckets == 2
MaxDatapoints == 2
MaxTransitions == 2

(* Program constants. *)

MoneyDen == 100000
GlacierRate == 400
DeepArchiveRate == 99
IntelligentTieringRate == 250
GlacierSavingsPct == 83
DeepArchiveSavingsPct == 96
IntelligentTieringSavingsPct == 89

GB == BlocksPerGB

None == <<>>
Some(x) == <<x>>

-----------------------------------------------------------------------------
(* Strings. *)

UpperAlpha == <<"A","B","C","D","E","F","G","H","I","J","K","L","M",
                "N","O","P","Q","R","S","T","U","V","W","X","Y","Z">>
LowerAlpha == <<"a","b","c","d","e","f","g","h","i","j","k","l","m",
                "n","o","p","q","r","s","t","u","v","w","x","y","z">>

LowerChar(c) ==
    IF \E i \in 1..Len(UpperAlpha) : UpperAlpha[i] = c
    THEN LowerAlpha[CHOOSE i \in 1..Len(UpperAlpha) : UpperAlpha[i] = c]
    ELSE c

\* str.lower()
Lower(s) == [i \in 1..Len(s) |-> LowerChar(s[i])]

\* sub in s
Contains(sub, s) ==
    \E i \in 0..(Len(s) - Len(sub)) : SubSeq(s, i + 1, i + Len(sub)) = sub

StrLog == <<"l","o","g">>
StrBackup == <<"b","a","c","k","u","p">>
StrArchive == <<"a","r","c","h","i","v","e">>

-----------------------------------------------------------------------------
(* Arithmetic. *)

\* n / d rounded to the nearest integer, ties to the even one (d > 0)
RoundDiv(n, d) ==
    LET q == n \div d
        r == n % d
    IN  IF 2 * r < d THEN q
        ELSE IF 2 * r > d THEN q + 1
        ELSE IF q % 2 = 0 THEN q ELSE q + 1

\* round(size_bytes / (1024 ** 3), 2), in hundredths of a GB
RoundSizeGB(size_bytes) == RoundDiv(size_bytes * 100, GB)

\* round(money, 2), in cents
RoundMoney(n) == RoundDiv(n * 100, GB * MoneyDen)

-----------------------------------------------------------------------------
(* calculate_current_cost and recommend_lifecycle_policy. *)

calculate_current_cost(size_bytes, cost_per_gb) == size_bytes * cost_per_gb

\* a variant of TooSmall that compares bytes, not GB, with 1
TooSmallInBytes(size_bytes) == size_bytes < 1

TooSmall(size_bytes) == size_bytes < GB

IsLogOrBackup(bucket_name) ==
    Contains(StrLog, Lower(bucket_name)) \/ Contains(StrBackup, Lower(bucket_name))

IsArchive(bucket_name) == Contains(StrArchive, Lower(bucket_name))

GlacierRecommendation(size_bytes) ==
    [strategy |-> "Intelligent-Tiering + Glacier",
     transitions |-> <<[days |-> 30, storage_class |-> "INTELLIGENT_TIERING"],
                       [days |-> 90, storage_class |-> "GLACIER_IR"]>>,
     estimated_cost |-> size_bytes * GlacierRate,
     savings_percentage |-> GlacierSavingsPct]

DeepArchiveRecommendation(size_bytes) ==
    [strategy |-> "Deep Archive",
     transitions |-> <<[days |-> 0, storage_class |-> "DEEP_ARCHIVE"]>>,
     estimated_cost |-> size_bytes * DeepArchiveRate,
     savings_percentage |-> DeepArchiveSavingsPct]

IntelligentTieringRecommendation(size_bytes) ==
    [strategy |-> "Intelligent-Tiering",
     transitions |-> <<[days |-> 30, storage_class |-> "INTELLIGENT_TIERING"]>>,
     estimated_cost |-> size_bytes * IntelligentTieringRate,
     savings_percentage |-> IntelligentTieringSavingsPct]

\* a variant of ChooseStrategy that tests 'archive' first
ChooseStrategyArchiveFirst(bucket_name, size_bytes) ==
    IF IsArchive(bucket_name) THEN DeepArchiveRecommendation(size_bytes)
    ELSE IF IsLogOrBackup(bucket_name) THEN GlacierRecommendation(size_bytes)
    ELSE IntelligentTieringRecommendation(size_bytes)

ChooseStrategy(bucket_name, size_bytes) ==
    IF IsLogOrBackup(bucket_name) THEN GlacierRecommendation(size_bytes)
    ELSE IF IsArchive(bucket_name) THEN DeepArchiveRecommendation(size_bytes)
    ELSE IntelligentTieringRecommendation(size_bytes)

\* returns <<recommendation or None, savings>>
recommend_lifecycle_policy(cfg, bucket_name, size_bytes, object_count) ==
    IF TooSmall(size_bytes) THEN <<None, 0>>
    ELSE LET current_cost == calculate_current_cost(size_bytes, cfg.standard)
             recommendation == ChooseStrategy(bucket_name, size_bytes)
         IN  <<Some(recommendation), current_cost - recommendation.estimated_cost>>

-----------------------------------------------------------------------------
(* The provider: what its calls can answer. *)

\* get_bucket_lifecycle_configuration: a body with a 'Rules' list (which may
\* be empty), a body without the key, or one of the two kinds of error
LifecycleResponses ==
    {[kind |-> "ok", Rules |-> Some(<<"rule">>)],
     [kind |-> "ok", Rules |-> Some(<<>>)],
     [kind |-> "ok", Rules |-> None],
     [kind |-> "NoSuchLifecycleConfiguration", Rules |-> None],
     [kind |-> "error", Rules |-> None]}

\* get_metric_statistics: an error, or one data point at most for each day
\* of the window, in any order
DatapointLists(values) ==
    UNION {{s \in [1..n -> [Timestamp : 1..MaxDatapoints, Average : values]] :
              \A i, j \in 1..n : i # j => s[i].Timestamp # s[j].Timestamp} :
           n \in 0..MaxDatapoints}

MetricResponses(values) ==
    {[kind |-> "error", Datapoints |-> <<>>]} \cup
    {[kind |-> "ok", Datapoints |-> d] : d \in DatapointLists(values)}

Call(op, bucket_name, arg) == [op |-> op, Bucket |-> bucket_name, arg |-> arg]

-----------------------------------------------------------------------------
(* get_bucket_lifecycle, get_bucket_size, get_bucket_object_count. *)

\* a variant of get_bucket_lifecycle that answers an error other than
\* NoSuchLifecycleConfiguration with an empty rule list
get_bucket_lifecycle_ErrorAsEmpty(resp) ==
    IF resp.kind = "NoSuchLifecycleConfiguration" THEN None
    ELSE IF resp.Rules # None THEN Some(resp.Rules[1]) ELSE Some(<<>>)

\* the rule list, or None
get_bucket_lifecycle(resp) ==
    IF resp.kind = "ok"
    THEN IF resp.Rules # None THEN Some(resp.Rules[1]) ELSE Some(<<>>)
    ELSE None

FirstDatapoint(datapoints) == datapoints[1]

get_bucket_size(resp) ==
    IF resp.kind = "ok"
    THEN IF Len(resp.Datapoints) > 0
         THEN FirstDatapoint(resp.Datapoints).Average
         ELSE 0
    ELSE 0

\* int(x) of a non-negative average given in halves
IntOfHalves(h) == h \div 2

get_bucket_object_count(resp) ==
    IF resp.kind = "ok"
    THEN IF Len(resp.Datapoints) > 0
         THEN IntOfHalves(FirstDatapoint(resp.Datapoints).Average)
         ELSE 0
    ELSE 0

-----------------------------------------------------------------------------
(* generate_lifecycle_policy. *)

DigitChars == <<"0","1","2","3","4","5","6","7","8","9">>

RECURSIVE Decimal(_)
\* str(n), n >= 0
Decimal(n) ==
    IF n < 10 THEN <<DigitChars[n + 1]>>
    ELSE Decimal(n \div 10) \o <<DigitChars[(n % 10) + 1]>>

StrOptimizationRule ==
    <<"O","p","t","i","m","i","z","a","t","i","o","n","R","u","l","e">>

\* a variant of PolicyRule that numbers the rules from 0
PolicyRuleZeroBased(i, transition) ==
    [Id |-> StrOptimizationRule \o Decimal(i),
     Status |-> "Enabled",
     Transitions |-> <<[Days |-> transition.days,
                        StorageClass |-> transition.storage_class]>>]

\* the rule built for enumerate()'s pair (i, transition), i counted from 0
PolicyRule(i, transition) ==
    [Id |-> StrOptimizationRule \o Decimal(i + 1),
     Status |-> "Enabled",
     Transitions |-> <<[Days |-> transition.days,
                        StorageClass |-> transition.storage_class]>>]

generate_lifecycle_policy(recommendation) ==
    [Rules |-> [k \in 1..Len(recommendation.transitions) |->
                   PolicyRule(k - 1, recommendation.transitions[k])]]

-----------------------------------------------------------------------------
(* Inputs. *)

\* what config.yaml gives for analysis.storage_costs.standard
StandardRates == {2300}
Configs == {[standard |-> r] : r \in StandardRates}

NameAppLogs == <<"a","p","p","-","l","o","g","s">>
NameOldArchive == <<"o","l","d","-","a","r","c","h","i","v","e">>
NameImages == <<"i","m","a","g","e","s">>
NameEmpty == <<>>
NameUpperLog == <<"L","O","G">>
NameBlog == <<"b","l","o","g">>
NameLoG == <<"l","o","-","g">>
NameDbBackups == <<"D","B","-","B","a","c","k","U","p","s">>
NameBackUp == <<"b","a","c","k","-","u","p">>
NameArchive1 == <<"A","r","c","h","i","v","e","1">>
NameArchiv == <<"a","r","c","h","i","v">>
NameLogsArchive == <<"l","o","g","s","-","a","r","c","h","i","v","e">>
NameArchiveBackup == <<"a","r","c","h","i","v","e","-","b","a","c","k","u","p">>
NameData == <<"d","a","t","a">>

\* names the bucket listing can hold: S3 names are lower-case and unique
BucketNames == {NameAppLogs, NameOldArchive, NameImages}

\* names given to recommend_lifecycle_policy directly
RecommendNames ==
    BucketNames \cup
    {NameEmpty, NameUpperLog, NameBlog, NameLoG, NameDbBackups, NameBackUp,
     NameArchive1, NameArchiv, NameLogsArchive, NameArchiveBackup, NameData}

\* the sizes the size metric reports for a bucket of the listing: on both
\* sides of one GB
SizeValues == {GB - 1, GB, GB + 1}
\* the sizes given to a method called on its own
SizeInputs == SizeValues \cup {0, GB \div 2, 2 * GB}

\* the object-count average the metric reports, in halves: 3.5
CountValues == {7}

SizeResponses == MetricResponses(SizeInputs)

\* the listings: sequences of distinct names
Listings ==
    UNION {{s \in [1..n -> BucketNames] :
              \A i, j \in 1..n : i # j => s[i] # s[j]} : n \in 0..MaxBuckets}

Transitions ==
    [days : {0, 30, 90},
     storage_class : {"INTELLIGENT_TIERING", "GLACIER_IR", "DEEP_ARCHIVE"}]

Custom(transitions) ==
    [strategy |-> "custom", transitions |-> transitions,
     estimated_cost |-> 0, savings_percentage |-> 0]

\* the recommendations recommend_lifecycle_policy builds, others of the same
\* shape with 0..MaxTransitions transitions, and one with eleven
Recommendations ==
    {ChooseStrategy(n, GB) : n \in BucketNames} \cup
    {Custom(t) : t \in UNION {[1..n -> Transitions] : n \in 0..MaxTransitions}} \cup
    {Custom([k \in 1..11 |-> [days |-> k, storage_class |-> "GLACIER_IR"]])}

Policies == {generate_lifecycle_policy(r) : r \in Recommendations}

-----------------------------------------------------------------------------
(* The state before main() runs, and while a single method is called. *)

NoLocals ==
    [bucket_name |-> None, has_lifecycle |-> FALSE,
     size_bytes |-> 0, object_count |-> 0, current_cost |-> 0,
     recommendation |-> None, savings |-> 0]

AuditIdle ==
    /\ buckets = <<>>
    /\ idx = 0
    /\ loc = NoLocals
    /\ audit_results = <<>>
    /\ total_size = 0
    /\ total_cost = 0
    /\ total_savings = 0
    /\ buckets_without_lifecycle = 0
    /\ calls = <<>>
    /\ console = <<>>
    /\ report = None
    /\ answers = None

NoUnit == [fn |-> "main", in |-> None, out |-> None]

\* a method called with input x, not yet returned
UnitInit(fn, inputs) ==
    /\ pc = "unit"
    /\ args = None
    /\ AuditIdle
    /\ unit \in {[fn |-> fn, in |-> Some(x), out |-> None] : x \in inputs}

UnitReturn(result) == unit' = [unit EXCEPT !.out = Some(result)]

UnitCalled(fn) == pc = "unit" /\ unit.fn = fn /\ unit.out = None

AuditVars == <<buckets, idx, loc, audit_results, total_size, total_cost,
               total_savings, buckets_without_lifecycle>>

-----------------------------------------------------------------------------
(* recommend_lifecycle_policy, called on its own. *)

InitRecommend ==
    /\ config \in {Some(c) : c \in Configs}
    /\ UnitInit("recommend_lifecycle_policy",
                [bucket_name : RecommendNames, size_bytes : SizeInputs,
                 object_count : {0, 3}])

CallRecommend ==
    /\ UnitCalled("recommend_lifecycle_policy")
    /\ LET a == unit.in[1]
       IN  UnitReturn(recommend_lifecycle_policy(
                          config[1], a.bucket_name, a.size_bytes, a.object_count))
    /\ UNCHANGED <<pc, args, config, AuditVars, calls, console, report, answers>>

SpecRecommend == InitRecommend /\ [][CallRecommend]_vars

-----------------------------------------------------------------------------
(* get_bucket_size, called on its own. *)

InitSize ==
    /\ config \in {Some(c) : c \in Configs}
    /\ UnitInit("get_bucket_size",
                [bucket_name : {NameImages}, response : SizeResponses])

CallSize ==
    /\ UnitCalled("get_bucket_size")
    /\ UnitReturn(get_bucket_size(unit.in[1].response))
    /\ calls' = Append(calls, Call("get_metric_statistics:BucketSizeBytes",
                                   Some(unit.in[1].bucket_name), None))
    /\ UNCHANGED <<pc, args, config, AuditVars, console, report, answers>>

SpecSize == InitSize /\ [][CallSize]_vars

-----------------------------------------------------------------------------
(* generate_lifecycle_policy, called on its own. *)

InitPolicy ==
    /\ config \in {Some(c) : c \in Configs}
    /\ UnitInit("generate_lifecycle_policy",
                [recommendation : Recommendations])

CallPolicy ==
    /\ UnitCalled("generate_lifecycle_policy")
    /\ UnitReturn(generate_lifecycle_policy(unit.in[1].recommendation))
    /\ UNCHANGED <<pc, args, config, AuditVars, calls, console, report, answers>>

SpecPolicy == InitPolicy /\ [][CallPolicy]_vars

-----------------------------------------------------------------------------
(* apply_lifecycle_policy, called on its own. *)

InitApply ==
    /\ config \in {Some(c) : c \in Configs}
    /\ UnitInit("apply_lifecycle_policy",
                [bucket_name : BucketNames, policy : Policies,
                 dry_run : BOOLEAN])

\* a variant of ApplyRequests that sends the write in a dry run too
ApplyRequestsAlways(bucket_name, policy, dry_run) ==
    <<Call("put_bucket_lifecycle_configuration", Some(bucket_name),
           Some(policy))>>

\* lines 232-241: the requests the method sends to the provider
ApplyRequests(bucket_name, policy, dry_run) ==
    IF dry_run THEN <<>>
    ELSE <<Call("put_bucket_lifecycle_configuration", Some(bucket_name),
                Some(policy))>>

\* lines 232-235: the dry run prints the policy and returns True
ApplyDryRun ==
    /\ UnitCalled("apply_lifecycle_policy")
    /\ unit.in[1].dry_run
    /\ LET a == unit.in[1]
       IN  calls' = calls \o ApplyRequests(a.bucket_name, a.policy, a.dry_run)
    /\ console' = Append(console, "[DRY RUN] Would apply policy")
    /\ UnitReturn(TRUE)
    /\ UNCHANGED <<pc, args, config, AuditVars, report, answers>>

\* lines 237-246: the write, which the provider accepts or answers with an
\* error
ApplyLive ==
    /\ UnitCalled("apply_lifecycle_policy")
    /\ ~unit.in[1].dry_run
    /\ LET a == unit.in[1]
       IN  calls' = calls \o ApplyRequests(a.bucket_name, a.policy, a.dry_run)
    /\ \E outcome \in {"ok", "error"} :
          /\ answers' = Some(outcome)
          /\ console' = Append(console,
                               IF outcome = "ok" THEN "Applied lifecycle policy"
                               ELSE "Failed to apply policy")
          /\ UnitReturn(outcome = "ok")
    /\ UNCHANGED <<pc, args, config, AuditVars, report>>

SpecApply == InitApply /\ [][ApplyDryRun \/ ApplyLive]_vars

-----------------------------------------------------------------------------
(* main() and audit_buckets. *)

\* argparse: --mode is one of three, --output and --bucket may be absent,
\* --dry-run is a flag
Args ==
    [mode : {"audit", "recommend", "apply"},
     output : {None, Some(<<"o","u","t",".","c","s","v">>)},
     bucket : {None, Some(NameImages)},
     dry_run : BOOLEAN]

Init ==
    /\ pc = "start"
    /\ args \in Args
    /\ config = None
    /\ AuditIdle
    /\ unit = NoUnit

\* line 270, S3LifecycleOptimizer(config_file): the config file is read and
\* the two clients are made; nothing is asked of the provider
Startup ==
    /\ pc = "start"
    /\ \/ \E c \in Configs : config' = Some(c) /\ pc' = "dispatch"
       \/ config' = config /\ pc' = "crashed"
    /\ UNCHANGED <<args, AuditVars, calls, console, report, answers, unit>>

\* a variant of RunsAudit that runs the audit in every mode
RunsAuditAnyMode(mode) == TRUE

\* lines 272 and 277: the modes that run audit_buckets
RunsAudit(mode) == mode = "audit" \/ mode = "recommend"

\* lines 282-283
RunApply ==
    /\ pc = "dispatch"
    /\ ~RunsAudit(args.mode)
    /\ args.mode = "apply"
    /\ console' = Append(console, "Apply mode not yet implemented")
    /\ pc' = "done"
    /\ UNCHANGED <<args, config, AuditVars, calls, report, answers, unit>>

\* lines 272-273 and 277-278 up to the loop: get_all_buckets, which raises
\* when the provider does, and the five accumulators
AuditBegin ==
    /\ pc = "dispatch"
    /\ RunsAudit(args.mode)
    /\ calls' = Append(calls, Call("list_buckets", None, None))
    /\ \/ /\ \E l \in Listings : buckets' = l
          /\ pc' = "audit"
       \/ /\ buckets' = buckets
          /\ pc' = "crashed"
    /\ idx' = 0
    /\ audit_results' = <<>>
    /\ total_size' = 0
    /\ total_cost' = 0
    /\ total_savings' = 0
    /\ buckets_without_lifecycle' = 0
    /\ UNCHANGED <<args, config, loc, console, report, answers, unit>>

\* a variant of NeedsRecommendation that ignores the lifecycle policy
NeedsRecommendationAnyPolicy(has_lifecycle, size_bytes) == size_bytes > GB

\* line 175
NeedsRecommendation(has_lifecycle, size_bytes) ==
    ~has_lifecycle /\ size_bytes > GB

\* lines 173-178: <<recommendation, savings>>
AuditRecommendation(cfg, bucket_name, has_lifecycle, size_bytes, object_count) ==
    IF NeedsRecommendation(has_lifecycle, size_bytes)
    THEN recommend_lifecycle_policy(cfg, bucket_name, size_bytes, object_count)
    ELSE <<None, 0>>

\* line 194
RecommendationLabel(recommendation) ==
    IF recommendation # None THEN recommendation[1].strategy ELSE "N/A"

\* lines 188-196
AuditRecord(l) ==
    [bucket_name |-> l.bucket_name[1],
     size_gb |-> RoundSizeGB(l.size_bytes),
     object_count |-> l.object_count,
     has_lifecycle |-> l.has_lifecycle,
     current_cost |-> RoundMoney(l.current_cost),
     recommendation |-> RecommendationLabel(l.recommendation),
     potential_savings |-> RoundMoney(l.savings)]

\* lines 153-178: the locals of one pass of the loop
Locals(cfg, bucket_name, lifecycle, size_bytes, object_count) ==
    LET has_lifecycle == lifecycle # None
        rs == AuditRecommendation(cfg, bucket_name, has_lifecycle,
                                  size_bytes, object_count)
    IN  [bucket_name |-> Some(bucket_name),
         has_lifecycle |-> has_lifecycle,
         size_bytes |-> size_bytes,
         object_count |-> object_count,
         current_cost |-> calculate_current_cost(size_bytes, cfg.standard),
         recommendation |-> rs[1],
         savings |-> rs[2]]

\* a variant of Counted that counts every bucket without a lifecycle policy
CountedAnyMissing(l) == ~l.has_lifecycle

\* line 179: a recommendation is counted
Counted(l) == l.recommendation # None

\* how the provider answered a read: with a body, with data points, or not
LifecycleAnswer(resp) == IF resp.kind = "ok" THEN "body" ELSE "failed"
MetricAnswer(resp) ==
    IF resp.kind = "ok" /\ Len(resp.Datapoints) > 0 THEN "data" ELSE "nodata"

\* what the three reads of one pass can give, whatever the provider answers:
\* pairs of the answer's kind and the method's result
LifecycleReads ==
    {<<LifecycleAnswer(r), get_bucket_lifecycle(r)>> : r \in LifecycleResponses}
SizeReads ==
    {<<MetricAnswer(r), get_bucket_size(r)>> : r \in MetricResponses(SizeValues)}
CountReads ==
    {<<MetricAnswer(r), get_bucket_object_count(r)>> :
        r \in MetricResponses(CountValues)}

\* lines 152-196: one pass of the loop; the provider answers each of the
\* three reads in any way it can
AuditBucket ==
    /\ pc = "audit"
    /\ idx < Len(buckets)
    /\ \E lr \in LifecycleReads, sr \in SizeReads, cr \in CountReads :
          LET bucket_name == buckets[idx + 1]
          IN  \E l \in {Locals(config[1], bucket_name, lr[2], sr[2], cr[2])} :
                /\ answers' = Some([lifecycle |-> lr[1], size |-> sr[1],
                                    object_count |-> cr[1]])
                /\ loc' = l
                /\ buckets_without_lifecycle' =
                       IF Counted(l) THEN buckets_without_lifecycle + 1
                       ELSE buckets_without_lifecycle
                /\ total_savings' =
                       IF Counted(l) THEN total_savings + l.savings
                       ELSE total_savings
                /\ total_size' = total_size + l.size_bytes
                /\ total_cost' = total_cost + l.current_cost
                /\ audit_results' = Append(audit_results, AuditRecord(l))
                /\ calls' = calls \o
                       <<Call("get_bucket_lifecycle_configuration",
                              Some(bucket_name), None),
                         Call("get_metric_statistics:BucketSizeBytes",
                              Some(bucket_name), None),
                         Call("get_metric_statistics:NumberOfObjects",
                              Some(bucket_name), None)>>
    /\ idx' = idx + 1
    /\ UNCHANGED <<pc, args, config, buckets, console, report, unit>>

\* lines 198-209 and 274, 279: the summary is printed, audit_buckets returns
\* and main() exports when --output is given and not empty
AuditReturn ==
    /\ pc = "audit"
    /\ idx = Len(buckets)
    /\ pc' = IF args.output # None /\ args.output[1] # <<>> THEN "export" ELSE "done"
    /\ UNCHANGED <<args, config, AuditVars, calls, console, report, answers, unit>>

CsvFields ==
    <<"bucket_name", "size_gb", "object_count", "has_lifecycle",
      "current_cost", "recommendation", "potential_savings">>

CsvRow(record) == [k \in 1..Len(CsvFields) |-> record[CsvFields[k]]]

\* lines 248-257: the header and one row for each record; opening or
\* writing the file may fail, which ends the program
ExportToCsv ==
    /\ pc = "export"
    /\ \/ /\ report' = Some(<<CsvFields>> \o
                             [k \in 1..Len(audit_results) |-> CsvRow(audit_results[k])])
          /\ console' = Append(console, "Report saved")
          /\ pc' = "done"
       \/ /\ report' = report
          /\ console' = console
          /\ pc' = "crashed"
    /\ UNCHANGED <<args, config, AuditVars, calls, answers, unit>>

Next ==
    \/ Startup
    \/ RunApply
    \/ AuditBegin
    \/ AuditBucket
    \/ AuditReturn
    \/ ExportToCsv

Spec == Init /\ [][Next]_vars

-----------------------------------------------------------------------------
(* Properties of recommend_lifecycle_policy (under SpecRecommend). *)

RecommendReturned == unit.fn = "recommend_lifecycle_policy" /\ unit.out # None

\* C1: for every name and every size below one GB, the method returns no
\* recommendation and savings 0
SmallBucketGetsNothing ==
    (RecommendReturned /\ unit.in[1].size_bytes < GB)
        => unit.out[1] = <<None, 0>>

SmallLogBucketSeen ==
    /\ RecommendReturned
    /\ unit.in[1].size_bytes = GB - 1
    /\ unit.in[1].bucket_name = NameLogsArchive

\* the input names that hold 'log' or 'backup', and those that hold
\* 'archive', in any case; classified by hand
NamesWithLogOrBackup ==
    {NameAppLogs, NameUpperLog, NameBlog, NameDbBackups, NameLogsArchive,
     NameArchiveBackup}
NamesWithArchive ==
    {NameOldArchive, NameArchive1, NameLogsArchive, NameArchiveBackup}

\* C2: from one GB on, a name with 'log' or 'backup' gets the strategy with
\* transitions (30, INTELLIGENT_TIERING), (90, GLACIER_IR), also when it holds
\* 'archive'; otherwise a name with 'archive' gets (0, DEEP_ARCHIVE); every
\* other name gets (30, INTELLIGENT_TIERING)
StrategyFollowsName ==
    (RecommendReturned /\ unit.in[1].size_bytes >= GB) =>
        /\ Len(unit.out[1][1]) = 1
        /\ LET name == unit.in[1].bucket_name
               r == unit.out[1][1][1]
           IN  IF name \in NamesWithLogOrBackup
               THEN /\ r.strategy = "Intelligent-Tiering + Glacier"
                    /\ r.transitions =
                         <<[days |-> 30, storage_class |-> "INTELLIGENT_TIERING"],
                           [days |-> 90, storage_class |-> "GLACIER_IR"]>>
               ELSE IF name \in NamesWithArchive
               THEN /\ r.strategy = "Deep Archive"
                    /\ r.transitions =
                         <<[days |-> 0, storage_class |-> "DEEP_ARCHIVE"]>>
               ELSE /\ r.strategy = "Intelligent-Tiering"
                    /\ r.transitions =
                         <<[days |-> 30, storage_class |-> "INTELLIGENT_TIERING"]>>

LogArchiveBucketSeen ==
    /\ RecommendReturned
    /\ unit.in[1].size_bytes = GB
    /\ unit.in[1].bucket_name = NameArchiveBackup
    /\ unit.out[1][1] # None

-----------------------------------------------------------------------------
(* Properties of get_bucket_size (under SpecSize). *)

\* the data point with the latest timestamp
MostRecent(datapoints) ==
    CHOOSE d \in {datapoints[k] : k \in 1..Len(datapoints)} :
        \A k \in 1..Len(datapoints) : datapoints[k].Timestamp <= d.Timestamp

\* C7: the method returns the value of the most recent data point the
\* source returned, in whatever order, and 0 when it returned none
SizeIsMostRecent ==
    (unit.fn = "get_bucket_size" /\ unit.out # None
         /\ unit.in[1].response.kind = "ok") =>
        LET d == unit.in[1].response.Datapoints
        IN  unit.out[1] = IF Len(d) = 0 THEN 0 ELSE MostRecent(d).Average

-----------------------------------------------------------------------------
(* Properties of generate_lifecycle_policy (under SpecPolicy). *)

\* the decimal numerals of 1..19, written out
Numerals ==
    <<<<"1">>, <<"2">>, <<"3">>, <<"4">>, <<"5">>, <<"6">>, <<"7">>, <<"8">>,
      <<"9">>, <<"1","0">>, <<"1","1">>, <<"1","2">>, <<"1","3">>,
      <<"1","4">>, <<"1","5">>, <<"1","6">>, <<"1","7">>, <<"1","8">>,
      <<"1","9">>>>

\* C6: for a recommendation with N transitions the document has N rules; the
\* i-th is named OptimizationRule<i>, is Enabled and has the i-th transition
\* as its only transition; the recommendation is left as it was
PolicyDocumentShape ==
    [][(unit.fn = "generate_lifecycle_policy" /\ unit.out = None
            /\ unit'.out # None) =>
          LET t == unit.in[1].recommendation.transitions
              doc == unit'.out[1]
          IN  /\ unit'.in = unit.in
              /\ DOMAIN doc = {"Rules"}
              /\ Len(doc.Rules) = Len(t)
              /\ \A i \in 1..Len(t) :
                    /\ doc.Rules[i].Id = StrOptimizationRule \o Numerals[i]
                    /\ doc.Rules[i].Status = "Enabled"
                    /\ doc.Rules[i].Transitions =
                         <<[Days |-> t[i].days,
                            StorageClass |-> t[i].storage_class]>>]_vars

ElevenRulesSeen ==
    /\ unit.fn = "generate_lifecycle_policy"
    /\ unit.out # None
    /\ Len(unit.out[1].Rules) = 11

-----------------------------------------------------------------------------
(* Properties of apply_lifecycle_policy (under SpecApply). *)

\* C5: a dry run sends nothing to the provider and returns True; a live run
\* sends exactly one write, and returns True when the provider accepts it
\* and False when it answers with an error
ApplyContract ==
    (unit.fn = "apply_lifecycle_policy" /\ unit.out # None) =>
        LET a == unit.in[1]
        IN  IF a.dry_run
            THEN calls = <<>> /\ unit.out[1] = TRUE
            ELSE /\ calls = <<Call("put_bucket_lifecycle_configuration",
                                   Some(a.bucket_name), Some(a.policy))>>
                 /\ answers # None
                 /\ unit.out[1] = (answers[1] = "ok")

DryRunReturned ==
    /\ unit.fn = "apply_lifecycle_policy"
    /\ unit.out = Some(TRUE)
    /\ unit.in[1].dry_run
    /\ Len(unit.in[1].policy.Rules) = 2

-----------------------------------------------------------------------------
(* Properties of main() and audit_buckets (under Spec). *)

AuditMode == args.mode \in {"audit", "recommend"}

\* audit_buckets has returned its report
AuditReturned == AuditMode /\ pc \in {"export", "done"}

\* a pass of the loop
AuditPass == pc = "audit" /\ idx' = idx + 1

\* C3: a bucket whose lifecycle read gives a rule list is recorded with
\* recommendation N/A and savings 0, and leaves the missing-policy counter
\* and the total savings as they were, whatever its size and name
ExistingPolicyUntouched ==
    [][(AuditPass /\ answers'[1].lifecycle = "body") =>
          /\ audit_results'[idx'].has_lifecycle
          /\ audit_results'[idx'].recommendation = "N/A"
          /\ audit_results'[idx'].potential_savings = 0
          /\ buckets_without_lifecycle' = buckets_without_lifecycle
          /\ total_savings' = total_savings]_vars

LargeLogBucketWithPolicySeen ==
    /\ pc = "audit"
    /\ idx >= 1
    /\ answers[1].lifecycle = "body"
    /\ loc.size_bytes > GB
    /\ loc.bucket_name = Some(NameAppLogs)

\* C4: once the listing is there the audit never stops before the last
\* bucket and returns one record for each listed bucket, in listing order;
\* a failed lifecycle read is recorded as has_lifecycle false and a metric
\* read that fails or has no data point as 0
AuditCompletes ==
    /\ pc = "audit" => /\ idx <= Len(buckets)
                       /\ ENABLED (AuditBucket \/ AuditReturn)
    /\ (pc = "audit" \/ AuditReturned) =>
          /\ Len(audit_results) = idx
          /\ \A k \in 1..idx : audit_results[k].bucket_name = buckets[k]
    /\ AuditReturned => idx = Len(buckets)
    /\ ((pc = "audit" \/ AuditReturned) /\ idx >= 1) =>
          /\ answers[1].lifecycle = "failed" => ~audit_results[idx].has_lifecycle
          /\ answers[1].size = "nodata" => audit_results[idx].size_gb = 0
          /\ answers[1].object_count = "nodata" =>
                 audit_results[idx].object_count = 0

AllReadsFailedSeen ==
    /\ AuditReturned
    /\ Len(audit_results) = 2
    /\ audit_results[1].has_lifecycle
    /\ answers[1] = [lifecycle |-> "failed", size |-> "nodata",
                     object_count |-> "nodata"]

\* C8: in mode apply the program sends nothing to the provider, audits no
\* bucket and writes no report, whatever the other options are, and ends
\* having said that apply is not implemented
ApplyIsStub ==
    args.mode = "apply" =>
        /\ calls = <<>>
        /\ buckets = <<>>
        /\ audit_results = <<>>
        /\ report = None
        /\ pc \in {"start", "dispatch", "done", "crashed"}
        /\ pc = "crashed" => config = None
        /\ pc = "dispatch" => ENABLED RunApply
        /\ pc = "done" => console = <<"Apply mode not yet implemented">>

ApplyModeDone ==
    /\ args.mode = "apply"
    /\ pc = "done"
    /\ args.output # None
    /\ args.bucket # None
    /\ args.dry_run

\* C9: every pass adds the bucket's size and current cost to the totals and
\* adds one to the missing-policy counter only for a bucket without a
\* lifecycle policy and above one GB; when the audit returns the counter is
\* the number of records whose recommendation is not N/A
MissingPolicyCount ==
    [][/\ AuditPass =>
            /\ audit_results'[idx'].size_gb = RoundSizeGB(loc'.size_bytes)
            /\ total_size' = total_size + loc'.size_bytes
            /\ total_cost' = total_cost + loc'.size_bytes * config[1].standard
            /\ buckets_without_lifecycle' =
                   buckets_without_lifecycle +
                   (IF ~audit_results'[idx'].has_lifecycle /\ loc'.size_bytes > GB
                    THEN 1 ELSE 0)
       /\ (pc = "audit" /\ pc' # "audit") =>
            buckets_without_lifecycle' =
                Cardinality({k \in 1..Len(audit_results') :
                                audit_results'[k].recommendation # "N/A"})]_vars

SmallBucketNotCounted ==
    /\ AuditReturned
    /\ Len(audit_results) = 2
    /\ ~audit_results[1].has_lifecycle
    /\ audit_results[1].size_gb > 0
    /\ audit_results[1].size_gb < 100
    /\ audit_results[2].recommendation # "N/A"
    /\ buckets_without_lifecycle = 1
    /\ total_size = 2 * GB

\* C10: for a bucket without a lifecycle policy, of any size, the record's
\* recommendation is the strategy recommend_lifecycle_policy returns for its
\* name and size, and N/A exactly when it returns none
AuditAgreesWithRecommender ==
    ((pc = "audit" \/ AuditReturned) /\ idx >= 1 /\ ~loc.has_lifecycle) =>
        audit_results[idx].recommendation =
            RecommendationLabel(
                recommend_lifecycle_policy(config[1], loc.bucket_name[1],
                                           loc.size_bytes, loc.object_count)[1])

====
